---- MODULE Spec2Model ----
(***************************************************************************)
(* A model of the limit order book of src/Orderbook.cpp: the registry      *)
(* orders_, the two price-level indexes bids_ and asks_, and the           *)
(* operations AddOrder, CancelOrder and MatchOrders(OrderModify), with the *)
(* matching loop MatchOrders() modelled one loop test / one trade per step. *)
(***************************************************************************)
EXTENDS Integers, Sequences, FiniteSets, TLC

\* ------------------------------------------------------------------ bounds
MaxPrice == 2
MaxId == 3
MaxQty == 2

Prices == 1..MaxPrice
Ids == 1..MaxId
Quantities == 0..MaxQty

\* ------------------------------------------------------------ value types
\* enum class OrderType / enum class Side
OrderTypes == {"GoodTillCancel", "FillOrkill"}
Sides == {"Buy", "Sell"}

\* Order's constructor: remaining quantity starts equal to the initial one.
Order(orderType, orderId, side, price, quantity) ==
    [orderType |-> orderType, orderId |-> orderId, side |-> side,
     price |-> price, initialQuantity |-> quantity,
     remainingQuantity |-> quantity]

\* The orders a caller can submit.
Orders ==
    {Order(t, i, s, p, q) : t \in OrderTypes, i \in Ids, s \in Sides,
                            p \in Prices, q \in Quantities}

\* OrderModify's constructor.
OrderModify(orderId, side, price, quantity) ==
    [orderId |-> orderId, side |-> side, price |-> price, quantity |-> quantity]

OrderModifies ==
    {OrderModify(i, s, p, q) : i \in Ids, s \in Sides, p \in Prices,
                               q \in Quantities}

ToOrderPointer(m, type) == Order(type, m.orderId, m.side, m.price, m.quantity)

isFilled(o) == o.remainingQuantity = 0

\* Mutant of Fill: the remaining quantity is cleared, not decreased.
Fill_Clears(o, quantity) ==
    IF quantity > o.remainingQuantity
    THEN -1
    ELSE 0

\* Order::Fill: the new remaining quantity; -1 stands for the logic_error.
Fill(o, quantity) ==
    IF quantity > o.remainingQuantity
    THEN -1
    ELSE o.remainingQuantity - quantity

\* Mutant of TradeInfo: price and quantity are stored in each other's field.
TradeInfo_Swapped(orderId, price, quantity) ==
    [orderId |-> orderId, price |-> quantity, quantity |-> price]

TradeInfo(orderId, price, quantity) ==
    [orderId |-> orderId, price |-> price, quantity |-> quantity]

Trade(bidTrade, askTrade) == [bidTrade |-> bidTrade, askTrade |-> askTrade]

\* ------------------------------------------------------------------ state
VARIABLES
    bids_,      \* std::map<Price, OrderPointers, greater>: price -> queue
    asks_,      \* std::map<Price, OrderPointers, less>: price -> queue
    orders_,    \* std::unordered_map<OrderId, OrderEntry>: id -> order
    pc,         \* position of the call in progress ("idle": none,
                \* "returned": just returned, "fault": ended abnormally)
    call,       \* the call in progress, or a summary of the last one
    trades,     \* MatchOrders' local trade list / the list last returned
    killed,     \* identifiers lines 192 and 199 cancelled in this call
    bidPrice,   \* the key of the level `bids` refers to in the inner loop
    askPrice    \* the key of the level `asks` refers to in the inner loop

vars == <<bids_, asks_, orders_, pc, call, trades, killed, bidPrice, askPrice>>
book == <<bids_, asks_, orders_>>

\* ------------------------------------------------------------ containers
EmptyMap == [p \in {} |-> <<>>]

MapErase(m, k) == [x \in DOMAIN m \ {k} |-> m[x]]

\* std::map::operator[]: the mapped queue, an empty one if the key is new.
MapIndex(m, k) == IF k \in DOMAIN m THEN m[k] ELSE <<>>

MapPut(m, k, v) == [x \in DOMAIN m \cup {k} |-> IF x = k THEN v ELSE m[x]]

SetMax(S) == CHOOSE x \in S : \A y \in S : y <= x
SetMin(S) == CHOOSE x \in S : \A y \in S : x <= y

\* Mutant of BidsBegin: bids_ ordered by std::less.
BidsBegin_Less(bids) == SetMin(DOMAIN bids)

\* *bids_.begin() under std::greater, *asks_.begin() under std::less.
BidsBegin(bids) == SetMax(DOMAIN bids)
AsksBegin(asks) == SetMin(DOMAIN asks)

\* Mutant of PushBack: the order is put in front of the queue.
PushBack_Front(q, o) == <<o>> \o q

PushBack(q, o) == Append(q, o)
Front(q) == Head(q)

\* Mutant of PopFront: the head stays in the queue.
PopFront_Keeps(q) == q

PopFront(q) == Tail(q)

\* Positions of the order with this id in a queue.
Positions(q, orderId) == {k \in 1..Len(q) : q[k].orderId = orderId}

\* Mutant of ListErase: the head of the queue is erased instead.
ListErase_Head(q, orderId) == Tail(q)

\* std::list::erase(location_): the node that holds the order.
ListErase(q, orderId) ==
    LET k == SetMin(Positions(q, orderId))
    IN  SubSeq(q, 1, k - 1) \o SubSeq(q, k + 1, Len(q))

Book == [bids |-> bids_, asks |-> asks_, orders |-> orders_]

\* ------------------------------------------------------------- operations
\* OrderBook::CanMatch.
CanMatch(b, side, price) ==
    IF side = "Buy"
    THEN IF DOMAIN b.asks = {} THEN FALSE ELSE price >= AsksBegin(b.asks)
    ELSE IF DOMAIN b.bids = {} THEN FALSE ELSE price <= BidsBegin(b.bids)

\* Mutant of Contains: the checks of lines 207 and 255 always pass.
Contains_Always(b, orderId) == TRUE

\* orders_.contains(orderId), lines 207 and 255.
Contains(b, orderId) == orderId \in DOMAIN b.orders

\* OrderBook::CancelOrder on book b. ok = FALSE: the call did not return
\* (orders_.at, asks_.at or bids_.at threw std::out_of_range, or location_
\* was no node of the queue it is erased from).
CancelOrder(b, orderId) ==
    IF ~Contains(b, orderId)
    THEN [bids |-> b.bids, asks |-> b.asks, orders |-> b.orders, ok |-> TRUE]
    ELSE IF orderId \notin DOMAIN b.orders
    THEN [bids |-> b.bids, asks |-> b.asks, orders |-> b.orders, ok |-> FALSE]
    ELSE
      LET order == b.orders[orderId]
          price == order.price
          erased == MapErase(b.orders, orderId)
      IN  IF order.side = "Sell"
          THEN IF price \notin DOMAIN b.asks
                  \/ Positions(MapIndex(b.asks, price), orderId) = {}
               THEN [bids |-> b.bids, asks |-> b.asks, orders |-> erased,
                     ok |-> FALSE]
               ELSE LET q == ListErase(b.asks[price], orderId)
                    IN  [bids |-> b.bids,
                         asks |-> IF q = <<>> THEN MapErase(b.asks, price)
                                  ELSE [b.asks EXCEPT ![price] = q],
                         orders |-> erased, ok |-> TRUE]
          ELSE IF price \notin DOMAIN b.bids
                  \/ Positions(MapIndex(b.bids, price), orderId) = {}
               THEN [bids |-> b.bids, asks |-> b.asks, orders |-> erased,
                     ok |-> FALSE]
               ELSE LET q == ListErase(b.bids[price], orderId)
                    IN  [bids |-> [b.bids EXCEPT ![price] = q],
                         \* line 226 erases the level from asks_, not bids_
                         asks |-> IF q = <<>> THEN MapErase(b.asks, price)
                                  ELSE b.asks,
                         orders |-> erased, ok |-> TRUE]

\* Mutant of IsDuplicate: the check of line 232 is missing.
IsDuplicate_Never(b, order) == FALSE

\* Line 232: the identifier is already in orders_.
IsDuplicate(b, order) == order.orderId \in DOMAIN b.orders

\* OrderBook::AddOrder up to the call of MatchOrders(). ret names the
\* return statement reached: L233, L237, or L251 (MatchOrders() follows).
AddOrder(b, order) ==
    IF IsDuplicate(b, order)
    THEN [bids |-> b.bids, asks |-> b.asks, orders |-> b.orders, ret |-> "L233"]
    ELSE IF order.orderType = "FillOrkill"
            /\ ~CanMatch(b, order.side, order.price)
    THEN [bids |-> b.bids, asks |-> b.asks, orders |-> b.orders, ret |-> "L237"]
    ELSE [bids |-> IF order.side = "Buy"
                   THEN MapPut(b.bids, order.price,
                               PushBack(MapIndex(b.bids, order.price), order))
                   ELSE b.bids,
          asks |-> IF order.side = "Buy"
                   THEN b.asks
                   ELSE MapPut(b.asks, order.price,
                               PushBack(MapIndex(b.asks, order.price), order)),
          orders |-> MapPut(b.orders, order.orderId, order),
          ret |-> "L251"]

\* ------------------------------------------------------------------ calls
NoCall == [op |-> "none", orderId |-> 0, ret |-> "none", arg |-> <<>>]

\* A call in progress keeps its argument; a returned call keeps the
\* operation, the identifier and the return statement it left by.
InCall(op, orderId, arg) ==
    [op |-> op, orderId |-> orderId, ret |-> "none", arg |-> <<arg>>]
Returned(op, orderId, ret) ==
    [op |-> op, orderId |-> orderId, ret |-> ret, arg |-> <<>>]

Init ==
    /\ bids_ = EmptyMap
    /\ asks_ = EmptyMap
    /\ orders_ = EmptyMap
    /\ pc = "idle"
    /\ call = NoCall
    /\ trades = <<>>
    /\ killed = {}
    /\ bidPrice = 0
    /\ askPrice = 0

\* The caller invokes AddOrder(order).
Submit(order) ==
    /\ pc = "idle"
    /\ LET r == AddOrder(Book, order)
       IN  /\ bids_' = r.bids
           /\ asks_' = r.asks
           /\ orders_' = r.orders
           /\ pc' = IF r.ret = "L251" THEN "match" ELSE "returned"
           /\ call' = IF r.ret = "L251"
                      THEN InCall("AddOrder", order.orderId, order)
                      ELSE Returned("AddOrder", order.orderId, r.ret)
    /\ trades' = <<>>
    /\ killed' = {}
    /\ UNCHANGED <<bidPrice, askPrice>>

\* The caller invokes CancelOrder(orderId).
Cancel(orderId) ==
    /\ pc = "idle"
    /\ LET r == CancelOrder(Book, orderId)
       IN  /\ bids_' = r.bids
           /\ asks_' = r.asks
           /\ orders_' = r.orders
           /\ pc' = IF r.ok THEN "returned" ELSE "fault"
           /\ call' = Returned("CancelOrder", orderId,
                               IF Contains(Book, orderId) THEN "L229"
                               ELSE "L208")
    /\ trades' = <<>>
    /\ killed' = {}
    /\ UNCHANGED <<bidPrice, askPrice>>

\* The caller invokes MatchOrders(OrderModify). existingOrder is a reference
\* into the orders_ node that CancelOrder erases, so line 260 reads the kind
\* through a dangling reference: the build either still finds the erased
\* order's kind there or traps.
MatchOrdersModify(m) ==
    /\ pc = "idle"
    /\ trades' = <<>>
    /\ killed' = {}
    /\ UNCHANGED <<bidPrice, askPrice>>
    /\ IF ~Contains(Book, m.orderId)
       THEN /\ pc' = "returned"
            /\ call' = Returned("Modify", m.orderId, "L256")
            /\ UNCHANGED book
       ELSE LET c == CancelOrder(Book, m.orderId)
            IN  \E read \in {"stale", "trap"} :
                  IF ~c.ok \/ read = "trap"
                  THEN /\ bids_' = c.bids
                       /\ asks_' = c.asks
                       /\ orders_' = c.orders
                       /\ pc' = "fault"
                       /\ call' = InCall("Modify", m.orderId, m)
                  ELSE LET existingOrder == orders_[m.orderId]
                           r == AddOrder(c, ToOrderPointer(m, existingOrder.orderType))
                       IN  /\ bids_' = r.bids
                           /\ asks_' = r.asks
                           /\ orders_' = r.orders
                           /\ pc' = IF r.ret = "L251" THEN "match"
                                    ELSE "returned"
                           /\ call' = IF r.ret = "L251"
                                      THEN InCall("Modify", m.orderId, m)
                                      ELSE Returned("Modify", m.orderId, r.ret)

\* ------------------------------------------------------- MatchOrders()
\* Mutant of NotCrossing: the loop also stops at equal prices.
NotCrossing_StopsAtEqual(bp, ap) == bp <= ap

\* Line 157: the outer loop stops when the top of book does not cross.
NotCrossing(bp, ap) == bp < ap

\* Mutant of MatchQuantity: std::max in the place of std::min.
MatchQuantity_Max(bid, ask) ==
    IF bid.remainingQuantity >= ask.remainingQuantity
    THEN bid.remainingQuantity
    ELSE ask.remainingQuantity

\* Lines 164-165: the quantity of one trade.
MatchQuantity(bid, ask) ==
    IF bid.remainingQuantity <= ask.remainingQuantity
    THEN bid.remainingQuantity
    ELSE ask.remainingQuantity

\* Lines 151-158: one test of the outer loop. It either leaves the loop for
\* the checks of line 188, or binds `bids` and `asks` to the two top levels.
MatchOrdersLoop ==
    /\ pc = "match"
    /\ UNCHANGED <<book, call, trades, killed>>
    /\ IF DOMAIN bids_ = {} \/ DOMAIN asks_ = {}
       THEN pc' = "post" /\ UNCHANGED <<bidPrice, askPrice>>
       ELSE IF NotCrossing(BidsBegin(bids_), AsksBegin(asks_))
       THEN pc' = "post" /\ UNCHANGED <<bidPrice, askPrice>>
       ELSE /\ pc' = "inner"
            /\ bidPrice' = BidsBegin(bids_)
            /\ askPrice' = AsksBegin(asks_)

\* The order a shared_ptr in a queue and in orders_ points to, after a fill.
Filled(o, quantity) == [o EXCEPT !.remainingQuantity = Fill(o, quantity)]

\* Lines 161-185: one trade between the heads of the two bound levels.
MatchOrdersTrade ==
    LET bids == bids_[bidPrice]
        asks == asks_[askPrice]
        quantity == MatchQuantity(Front(bids), Front(asks))
        bid == Filled(Front(bids), quantity)
        ask == Filled(Front(asks), quantity)
        bids1 == IF isFilled(bid) THEN PopFront(bids)
                 ELSE <<bid>> \o Tail(bids)
        asks1 == IF isFilled(ask) THEN PopFront(asks)
                 ELSE <<ask>> \o Tail(asks)
        gone == (IF isFilled(bid) THEN {bid.orderId} ELSE {})
                \cup (IF isFilled(ask) THEN {ask.orderId} ELSE {})
        orders1 == [i \in DOMAIN orders_ \ gone |->
                      IF i = bid.orderId THEN bid
                      ELSE IF i = ask.orderId THEN ask
                      ELSE orders_[i]]
    IN  IF Fill(Front(bids), quantity) < 0 \/ Fill(Front(asks), quantity) < 0
        THEN pc' = "fault" /\ UNCHANGED <<book, call, trades, killed, bidPrice, askPrice>>
        ELSE /\ bids_' = IF bids1 = <<>> THEN MapErase(bids_, bidPrice)
                         ELSE [bids_ EXCEPT ![bidPrice] = bids1]
             /\ asks_' = IF asks1 = <<>> THEN MapErase(asks_, askPrice)
                         ELSE [asks_ EXCEPT ![askPrice] = asks1]
             /\ orders_' = orders1
             /\ trades' = Append(trades,
                    Trade(TradeInfo(bid.orderId, bid.price, quantity),
                          TradeInfo(ask.orderId, ask.price, quantity)))
             /\ pc' = "inner"
             /\ UNCHANGED <<call, killed, bidPrice, askPrice>>

\* Line 160: one test of the inner loop, and the trade when it passes.
\* After line 179 or 181 erased a level, `bids` or `asks` refers to the
\* destroyed list: the build either reads its size as 0 or traps.
MatchOrdersInner ==
    /\ pc = "inner"
    /\ IF bidPrice \notin DOMAIN bids_
          \/ (bids_[bidPrice] # <<>> /\ askPrice \notin DOMAIN asks_)
       THEN \E read \in {"zero", "trap"} :
              /\ pc' = IF read = "zero" THEN "match" ELSE "fault"
              /\ bidPrice' = IF read = "zero" THEN 0 ELSE bidPrice
              /\ askPrice' = IF read = "zero" THEN 0 ELSE askPrice
              /\ UNCHANGED <<book, call, trades, killed>>
       ELSE IF bids_[bidPrice] = <<>> \/ asks_[askPrice] = <<>>
       THEN /\ pc' = "match"
            /\ bidPrice' = 0
            /\ askPrice' = 0
            /\ UNCHANGED <<book, call, trades, killed>>
       ELSE MatchOrdersTrade
\* What `bids.front()` / `asks.front()` of lines 190 and 197 yields. On an
\* empty list it is no order: the build traps, or reads some kind and some
\* identifier there.
FrontReads(q) ==
    IF q = <<>>
    THEN {[trap |-> TRUE, orderType |-> "GoodTillCancel", orderId |-> 0]}
         \cup {[trap |-> FALSE, orderType |-> t, orderId |-> i] :
                    t \in OrderTypes, i \in Ids}
    ELSE {[trap |-> FALSE, orderType |-> Front(q).orderType,
           orderId |-> Front(q).orderId]}

\* No read: the side's index is empty (line 188 or 195 is false).
NoRead == [trap |-> FALSE, orderType |-> "GoodTillCancel", orderId |-> 0]

\* Mutant of CancelIfFillOrKill: the head of book is never cancelled.
CancelIfFillOrKill_Never(b, read) ==
    [bids |-> b.bids, asks |-> b.asks, orders |-> b.orders, ok |-> ~read.trap]

\* Lines 191-193 and 198-200 on what front() yielded.
CancelIfFillOrKill(b, read) ==
    IF read.trap
    THEN [bids |-> b.bids, asks |-> b.asks, orders |-> b.orders, ok |-> FALSE]
    ELSE IF read.orderType = "FillOrkill"
    THEN CancelOrder(b, read.orderId)
    ELSE [bids |-> b.bids, asks |-> b.asks, orders |-> b.orders, ok |-> TRUE]

\* Lines 188-202: the head of the best bid level, then the head of the best
\* ask level, and the return of the trade list.
MatchOrdersPost ==
    /\ pc = "post"
    /\ UNCHANGED <<trades, bidPrice, askPrice>>
    /\ \E readBid \in (IF DOMAIN bids_ = {} THEN {NoRead}
                       ELSE FrontReads(bids_[BidsBegin(bids_)])) :
         LET b == CancelIfFillOrKill(Book, readBid)
         IN  \E readAsk \in (IF ~b.ok \/ DOMAIN b.asks = {} THEN {NoRead}
                             ELSE FrontReads(b.asks[AsksBegin(b.asks)])) :
               LET r == IF b.ok THEN CancelIfFillOrKill(b, readAsk) ELSE b
               IN  /\ bids_' = r.bids
                   /\ asks_' = r.asks
                   /\ orders_' = r.orders
                   /\ killed' = {i \in DOMAIN orders_ : i \notin DOMAIN r.orders}
                   /\ pc' = IF r.ok THEN "returned" ELSE "fault"
                   /\ call' = IF r.ok
                              THEN Returned(call.op, call.orderId, "L202")
                              ELSE call

\* The caller has the result (main discards it, lines 292 and 295) and is
\* ready for its next call.
Resume ==
    /\ pc = "returned"
    /\ pc' = "idle"
    /\ call' = NoCall
    /\ trades' = <<>>
    /\ killed' = {}
    /\ UNCHANGED <<book, bidPrice, askPrice>>

\* The steps of a call in progress.
Step ==
    \/ MatchOrdersLoop
    \/ MatchOrdersInner
    \/ MatchOrdersPost

Next ==
    \/ \E order \in Orders : Submit(order)
    \/ \E orderId \in Ids : Cancel(orderId)
    \/ \E m \in OrderModifies : MatchOrdersModify(m)
    \/ Step
    \/ Resume

Spec == Init /\ [][Next]_vars

\* A call in progress keeps running: the engine is single-threaded and
\* synchronous, nothing suspends it.
FairSpec == Spec /\ WF_vars(Step)

\* OrderBook::Size.
Size == Cardinality(DOMAIN orders_)

\* std::accumulate of lines 271-275 over one level's queue. The running sum
\* is a std::uint32_t; a level of the model sums to MaxId * MaxQty at most,
\* so the sum never wraps here.
RECURSIVE Accumulate(_)
Accumulate(orders) ==
    IF orders = <<>>
    THEN 0
    ELSE Accumulate(SubSeq(orders, 1, Len(orders) - 1))
            + orders[Len(orders)].remainingQuantity

\* The lambda of lines 270-277.
CreateLevelInfos(price, orders) ==
    [price |-> price, quantity |-> Accumulate(orders)]

\* The keys of bids_ (std::greater) and of asks_ (std::less) in the order
\* the loops of lines 278 and 281 visit them.
RECURSIVE Descending(_)
Descending(S) ==
    IF S = {} THEN <<>>
    ELSE <<SetMax(S)>> \o Descending(S \ {SetMax(S)})

RECURSIVE Ascending(_)
Ascending(S) ==
    IF S = {} THEN <<>>
    ELSE <<SetMin(S)>> \o Ascending(S \ {SetMin(S)})

\* OrderBook::GetLevelInfos: one entry for every key of bids_, then of asks_.
GetLevelInfos ==
    LET bidKeys == Descending(DOMAIN bids_)
        askKeys == Ascending(DOMAIN asks_)
    IN  [bids |-> [k \in 1..Len(bidKeys) |->
                     CreateLevelInfos(bidKeys[k], bids_[bidKeys[k]])],
         asks |-> [k \in 1..Len(askKeys) |->
                     CreateLevelInfos(askKeys[k], asks_[askKeys[k]])]]
\* ---------------------------------------------------------------- claims
Range(q) == {q[k] : k \in 1..Len(q)}
Last(q) == q[Len(q)]

\* The orders resident in the queues of each side.
BidOrders == UNION {Range(bids_[p]) : p \in DOMAIN bids_}
AskOrders == UNION {Range(asks_[p]) : p \in DOMAIN asks_}

\* A queue without the order of this identifier, the others in their order.
Without(q, orderId) == SelectSeq(q, LAMBDA o : o.orderId # orderId)

\* This step is one trade of the matching loop.
IsTrade == Len(trades') = Len(trades) + 1

\* C1: after AddOrder returns, one side has no resident order or every
\* resident bid is priced strictly below every resident ask.
C1_Uncrossed ==
    (pc = "returned" /\ call.op = "AddOrder")
        => \A b \in BidOrders : \A a \in AskOrders : b.price < a.price

\* AddOrder matched, returned, and left orders resident on both sides.
C1_Witness ==
    /\ pc = "returned"
    /\ call.op = "AddOrder"
    /\ call.ret = "L202"
    /\ trades # <<>>
    /\ BidOrders # {}
    /\ AskOrders # {}

\* C2: every call in progress ends: it returns (or at least ends
\* abnormally) instead of running forever.
C2_Terminates ==
    (pc \in {"match", "inner", "post"}) ~> (pc \in {"returned", "fault"})

\* C3: a trade never fills an order that stands behind another order of
\* its level with remaining quantity > 0 (it takes the head of the queue),
\* and an accepted order is appended at the tail of its level's queue.
C3_TimePriority ==
    [][/\ IsTrade =>
            /\ \A p \in DOMAIN bids_ : \A k \in 2..Len(bids_[p]) :
                 (\E j \in 1..(k - 1) : bids_[p][j].remainingQuantity > 0)
                   => /\ Last(trades').bidTrade.orderId # bids_[p][k].orderId
                      /\ p \in DOMAIN bids_'
                      /\ bids_[p][k] \in Range(bids_'[p])
            /\ \A p \in DOMAIN asks_ : \A k \in 2..Len(asks_[p]) :
                 (\E j \in 1..(k - 1) : asks_[p][j].remainingQuantity > 0)
                   => /\ Last(trades').askTrade.orderId # asks_[p][k].orderId
                      /\ p \in DOMAIN asks_'
                      /\ asks_[p][k] \in Range(asks_'[p])
       /\ (pc = "idle" /\ pc' = "match") =>
            LET o == orders_'[call'.orderId]
                old == IF o.side = "Buy" THEN bids_ ELSE asks_
                new == IF o.side = "Buy" THEN bids_' ELSE asks_'
            IN  /\ o.price \in DOMAIN new
                /\ new[o.price] =
                     Append(Without(MapIndex(old, o.price), o.orderId), o)
      ]_vars

\* After one trade of a bid, another bid of the same level stands unfilled
\* behind it.
C3_Witness ==
    /\ pc = "inner"
    /\ Len(trades) = 1
    /\ trades[1].bidTrade.quantity > 0
    /\ bidPrice \in DOMAIN bids_
    /\ \E o \in Range(bids_[bidPrice]) :
         /\ o.orderId # trades[1].bidTrade.orderId
         /\ o.remainingQuantity = o.initialQuantity
         /\ o.remainingQuantity > 0
\* C4: every trade pairs the head of the highest bid level that holds an
\* order with the head of the lowest such ask level: no bid with remaining
\* quantity > 0 is resident at a higher price than the bid filled, no such
\* ask at a lower price than the ask filled.
C4_PricePriority ==
    [][IsTrade =>
         LET t == Last(trades')
             bestBid == SetMax({o.price : o \in BidOrders})
             bestAsk == SetMin({o.price : o \in AskOrders})
         IN  /\ \A o \in BidOrders :
                  o.remainingQuantity > 0 => o.price <= t.bidTrade.price
             /\ \A o \in AskOrders :
                  o.remainingQuantity > 0 => o.price >= t.askTrade.price
             /\ t.bidTrade.orderId = Front(bids_[bestBid]).orderId
             /\ t.askTrade.orderId = Front(asks_[bestAsk]).orderId
             /\ t.bidTrade.price = bestBid
             /\ t.askTrade.price = bestAsk
      ]_vars

\* A bid was filled while another bid is resident at a lower price.
C4_Witness ==
    /\ pc = "inner"
    /\ Len(trades) = 1
    /\ trades[1].bidTrade.quantity > 0
    /\ \E o \in BidOrders :
         /\ o.price < trades[1].bidTrade.price
         /\ o.remainingQuantity > 0

\* The remaining quantity the order of this identifier is left with by the
\* step: a fully filled order has left the book.
RemainingAfter(orderId) ==
    IF orderId \in DOMAIN orders_'
    THEN orders_'[orderId].remainingQuantity
    ELSE 0

\* The queues of an index, the orders of the two identifiers left out.
Others(m, p, i1, i2) == Without(Without(MapIndex(m, p), i1), i2)

\* C5: the quantity of a trade is the minimum of the two orders' remaining
\* quantities, the same on both legs; both orders' remaining quantities
\* decrease by exactly it, and no other order changes.
C5_QuantityConservative ==
    [][IsTrade =>
         LET t == Last(trades')
             bid == orders_[t.bidTrade.orderId]
             ask == orders_[t.askTrade.orderId]
             q == t.bidTrade.quantity
         IN  /\ t.bidTrade.orderId \in DOMAIN orders_
             /\ t.askTrade.orderId \in DOMAIN orders_
             /\ bid \in BidOrders
             /\ ask \in AskOrders
             /\ t.askTrade.quantity = q
             /\ q <= bid.remainingQuantity
             /\ q <= ask.remainingQuantity
             /\ q = bid.remainingQuantity \/ q = ask.remainingQuantity
             /\ RemainingAfter(bid.orderId) = bid.remainingQuantity - q
             /\ RemainingAfter(ask.orderId) = ask.remainingQuantity - q
             /\ \A i \in DOMAIN orders_ \ {bid.orderId, ask.orderId} :
                  i \in DOMAIN orders_' /\ orders_'[i] = orders_[i]
             /\ \A p \in Prices :
                  /\ Others(bids_', p, bid.orderId, ask.orderId)
                       = Others(bids_, p, bid.orderId, ask.orderId)
                  /\ Others(asks_', p, bid.orderId, ask.orderId)
                       = Others(asks_, p, bid.orderId, ask.orderId)
             /\ \A o \in BidOrders' \cup AskOrders' :
                  o.orderId \in DOMAIN orders_' /\ orders_'[o.orderId] = o
      ]_vars

\* A trade left one of its two orders partially filled.
C5_Witness ==
    /\ pc = "inner"
    /\ trades # <<>>
    /\ Last(trades).bidTrade.quantity > 0
    /\ \E o \in BidOrders \cup AskOrders :
         /\ o.orderId \in {Last(trades).bidTrade.orderId,
                           Last(trades).askTrade.orderId}
         /\ 0 < o.remainingQuantity
         /\ o.remainingQuantity < o.initialQuantity
\* C6: AddOrder of an identifier that is already resident returns an empty
\* trade list and changes nothing of the book, whatever the order is.
C6_DuplicateRejected ==
    [][(pc = "idle" /\ call'.op = "AddOrder"
          /\ call'.orderId \in DOMAIN orders_)
         => /\ pc' = "returned"
            /\ trades' = <<>>
            /\ UNCHANGED book
      ]_vars

\* AddOrder returned by line 233 with the identifier resident.
C6_Witness ==
    /\ pc = "returned"
    /\ call.op = "AddOrder"
    /\ call.ret = "L233"
    /\ call.orderId \in DOMAIN orders_
    /\ BidOrders \cup AskOrders # {}

\* An order of the opposite side is resident at a price that crosses.
CrossingResident(order) ==
    IF order.side = "Buy"
    THEN \E a \in AskOrders : a.price <= order.price
    ELSE \E b \in BidOrders : b.price >= order.price

\* C7: AddOrder of a FillOrkill order returns an empty trade list and
\* changes nothing of the book whenever no order of the opposite side is
\* resident at a crossing price.
C7_FillOrKillRejected ==
    [][\A order \in Orders :
         (order.orderType = "FillOrkill" /\ ~CrossingResident(order)
            /\ Submit(order))
           => /\ pc' = "returned"
              /\ trades' = <<>>
              /\ UNCHANGED book
      ]_vars

\* C8: when a call has returned, every order of the registry and of the
\* queues is a GoodTillCancel order.
C8_NoFillOrKillResident ==
    (pc \in {"returned", "idle"})
        => /\ \A i \in DOMAIN orders_ : orders_[i].orderType = "GoodTillCancel"
           /\ \A o \in BidOrders \cup AskOrders : o.orderType = "GoodTillCancel"

\* AddOrder of a FillOrkill sell order returned after the order was partly
\* filled and then cancelled by line 199.
C8_Witness ==
    /\ pc = "returned"
    /\ call.op = "AddOrder"
    /\ killed = {call.orderId}
    /\ DOMAIN bids_ = {}
    /\ \E k \in 1..Len(trades) :
         /\ trades[k].askTrade.orderId = call.orderId
         /\ trades[k].bidTrade.quantity > 0

\* C9: CancelOrder or MatchOrders(OrderModify) of an identifier that is not
\* resident changes nothing of the book and returns (an empty trade list);
\* and after CancelOrder returned, CancelOrder of the same identifier
\* changes nothing.
C9_UnknownIsNoOp ==
    [][/\ (pc = "idle" /\ call'.op \in {"CancelOrder", "Modify"}
             /\ call'.orderId \notin DOMAIN orders_)
            => /\ pc' = "returned"
               /\ trades' = <<>>
               /\ UNCHANGED book
       /\ (pc = "idle" /\ call'.op = "CancelOrder")
            => /\ pc' = "returned"
               /\ call'.orderId \notin DOMAIN orders_'
               /\ CancelOrder(Book', call'.orderId)
                    = [bids |-> bids_', asks |-> asks_', orders |-> orders_',
                       ok |-> TRUE]
      ]_vars

\* CancelOrder or MatchOrders(OrderModify) returned by line 208 or 256, with
\* orders resident on both sides.
C9_Witness ==
    /\ pc = "returned"
    /\ call.op \in {"CancelOrder", "Modify"}
    /\ call.ret \in {"L208", "L256"}
    /\ BidOrders # {}
    /\ AskOrders # {}

\* C10: CancelOrder of a resident order removes that order from the
\* registry and from its queue, and nothing else changes: the other orders
\* keep their records and their relative positions, and the index of the
\* other side is untouched.
C10_CancelFrame ==
    [][(pc = "idle" /\ call'.op = "CancelOrder"
          /\ call'.orderId \in DOMAIN orders_)
         => LET id == call'.orderId
                order == orders_[id]
            IN  /\ pc' = "returned"
                /\ Cardinality(DOMAIN orders_')
                     = Cardinality(DOMAIN orders_) - 1
                /\ DOMAIN orders_' = DOMAIN orders_ \ {id}
                /\ \A i \in DOMAIN orders_' : orders_'[i] = orders_[i]
                /\ \A o \in BidOrders' \cup AskOrders' : o.orderId # id
                /\ DOMAIN bids_' \subseteq DOMAIN bids_
                /\ DOMAIN asks_' \subseteq DOMAIN asks_
                /\ \A p \in DOMAIN bids_ :
                     MapIndex(bids_', p) = Without(bids_[p], id)
                /\ \A p \in DOMAIN asks_ :
                     MapIndex(asks_', p) = Without(asks_[p], id)
                /\ order.side = "Buy" => asks_' = asks_
                /\ order.side = "Sell" => bids_' = bids_
      ]_vars

\* CancelOrder removed a resident order and left orders resident on both
\* sides.
C10_Witness ==
    /\ pc = "returned"
    /\ call.op = "CancelOrder"
    /\ call.ret = "L229"
    /\ BidOrders # {}
    /\ AskOrders # {}

\* An order of the side opposite to the modify's new side, other than the
\* modified order itself, is resident at a price that crosses the new price.
ModifyCrosses(m) ==
    IF m.side = "Buy"
    THEN \E a \in AskOrders : a.orderId # m.orderId /\ a.price <= m.price
    ELSE \E b \in BidOrders : b.orderId # m.orderId /\ b.price >= m.price

\* C11: MatchOrders(OrderModify) of a resident GoodTillCancel order that
\* crosses no resident order of the opposite side puts an order of the same
\* identifier and kind, with initial = remaining = the new quantity, at the
\* tail of the queue of the new side and price, keeps Size(), and then
\* returns an empty trade list without changing the book further.
C11_ModifyRests ==
    [][/\ \A m \in OrderModifies :
            (/\ m.orderId \in DOMAIN orders_
             /\ orders_[m.orderId].orderType = "GoodTillCancel"
             /\ ~ModifyCrosses(m)
             /\ MatchOrdersModify(m))
              => LET o == ToOrderPointer(m, "GoodTillCancel")
                     old == IF m.side = "Buy" THEN bids_ ELSE asks_
                     new == IF m.side = "Buy" THEN bids_' ELSE asks_'
                 IN  /\ pc' = "match"
                     /\ Size' = Size
                     /\ orders_' = [orders_ EXCEPT ![m.orderId] = o]
                     /\ m.price \in DOMAIN new
                     /\ new[m.price]
                          = Append(Without(MapIndex(old, m.price), m.orderId), o)
       /\ (/\ pc \in {"match", "post"}
           /\ call.op = "Modify"
           /\ trades = <<>>
           /\ ~ModifyCrosses(call.arg[1]))
            => /\ pc' \in {"post", "returned"}
               /\ trades' = <<>>
               /\ UNCHANGED book
      ]_vars

\* The book holds exactly one GoodTillCancel buy and one GoodTillCancel sell
\* at a higher price, both with the remaining quantity m.quantity, and m
\* moves the buy to the sell's price.
ScenarioD(m) ==
    /\ pc = "idle"
    /\ Size = 2
    /\ m.side = "Buy"
    /\ m.orderId \in DOMAIN orders_
    /\ LET buy == orders_[m.orderId]
       IN  /\ buy.side = "Buy"
           /\ buy.orderType = "GoodTillCancel"
           /\ buy.price < m.price
           /\ buy.remainingQuantity = m.quantity
    /\ \E i \in DOMAIN orders_ :
         /\ orders_[i].side = "Sell"
         /\ orders_[i].orderType = "GoodTillCancel"
         /\ orders_[i].price = m.price
         /\ orders_[i].remainingQuantity = m.quantity

\* A modify in progress whose re-submitted buy and one sell of the same
\* price and quantity are the only orders, before or after their trade.
InScenarioD ==
    /\ pc \in {"match", "inner", "post"}
    /\ call.op = "Modify"
    /\ call.arg[1].side = "Buy"
    /\ \/ /\ trades = <<>>
          /\ Size = 2
          /\ call.orderId \in DOMAIN orders_
          /\ orders_[call.orderId] \in BidOrders
          /\ \E a \in AskOrders :
               /\ a.price = call.arg[1].price
               /\ a.remainingQuantity = call.arg[1].quantity
       \/ /\ Len(trades) = 1
          /\ Size = 0
          /\ trades[1].bidTrade.orderId = call.orderId
          /\ trades[1].bidTrade.quantity = call.arg[1].quantity

\* C12: MatchOrders(OrderModify) that moves the only buy (quantity q) to the
\* price of the only sell (quantity q, higher price) re-submits the buy,
\* goes on without ending abnormally, and returns exactly one trade of
\* quantity q between the two identifiers with Size() = 0.
C12_ModifyCrossMatches ==
    [][/\ \A m \in OrderModifies :
            (ScenarioD(m) /\ MatchOrdersModify(m))
              => /\ pc' = "match"
                 /\ Size' = 2
                 /\ orders_'[m.orderId] = ToOrderPointer(m, "GoodTillCancel")
       /\ InScenarioD
            => /\ pc' # "fault"
               /\ pc' = "returned"
                    => /\ Len(trades') = 1
                       /\ trades'[1].bidTrade.orderId = call.orderId
                       /\ trades'[1].askTrade.orderId # call.orderId
                       /\ trades'[1].bidTrade.quantity = call.arg[1].quantity
                       /\ trades'[1].askTrade.quantity = call.arg[1].quantity
                       /\ Size' = 0
      ]_vars

\* The orders of the registry on one side at one price.
ResidentAt(side, price) ==
    {i \in DOMAIN orders_ :
        orders_[i].side = side /\ orders_[i].price = price}

\* The sum of the remaining quantities of a set of resident orders.
RECURSIVE SumRemaining(_)
SumRemaining(ids) ==
    IF ids = {} THEN 0
    ELSE LET i == CHOOSE x \in ids : TRUE
         IN  orders_[i].remainingQuantity + SumRemaining(ids \ {i})

\* The aggregation of the resident orders: one entry for each price with a
\* resident order of the side, bids descending and asks ascending.
ReferenceLevelInfos ==
    LET bidKeys == Descending({p \in Prices : ResidentAt("Buy", p) # {}})
        askKeys == Ascending({p \in Prices : ResidentAt("Sell", p) # {}})
    IN  [bids |-> [k \in 1..Len(bidKeys) |->
                     [price |-> bidKeys[k],
                      quantity |-> SumRemaining(ResidentAt("Buy", bidKeys[k]))]],
         asks |-> [k \in 1..Len(askKeys) |->
                     [price |-> askKeys[k],
                      quantity |-> SumRemaining(ResidentAt("Sell", askKeys[k]))]]]

\* C13: whenever the caller can take it, the snapshot of GetLevelInfos is
\* the aggregation of the resident orders: one entry per price that has a
\* resident order of the side, bids in descending and asks in ascending
\* price order, each with the sum of the remaining quantities there.
C13_LevelInfos ==
    (pc \in {"idle", "returned"}) => GetLevelInfos = ReferenceLevelInfos

\* The order of a trade that was resident before the call in progress: the
\* one that is not the order the call submitted.
RestingOrder(t) ==
    IF t.bidTrade.orderId = call.orderId
    THEN orders_[t.askTrade.orderId]
    ELSE orders_[t.bidTrade.orderId]

\* C14 as stated: both legs of every trade carry the same price, the price
\* of the order that was resident before the call.
C14_LegsAtRestingPrice ==
    [][IsTrade =>
         LET t == Last(trades')
         IN  /\ t.bidTrade.price = t.askTrade.price
             /\ t.bidTrade.price = RestingOrder(t).price
      ]_vars

\* C14 amended: each leg of every trade carries the price of its own order,
\* so the resting order's price is on the resting order's leg only; the bid
\* leg's price is never below the ask leg's, and the two legs are equal
\* exactly when the two orders have the same price.
C14_LegsAtOwnPrice ==
    [][IsTrade =>
         LET t == Last(trades')
             bid == orders_[t.bidTrade.orderId]
             ask == orders_[t.askTrade.orderId]
         IN  /\ bid.side = "Buy"
             /\ ask.side = "Sell"
             /\ call.orderId \in {bid.orderId, ask.orderId}
             /\ t.bidTrade.price = bid.price
             /\ t.askTrade.price = ask.price
             /\ t.bidTrade.price >= t.askTrade.price
             /\ (t.bidTrade.price = t.askTrade.price) <=> (bid.price = ask.price)
      ]_vars

\* A trade of a positive quantity whose bid leg carries a higher price than
\* its ask leg.
C14_Witness ==
    /\ pc = "inner"
    /\ trades # <<>>
    /\ Last(trades).bidTrade.quantity > 0
    /\ Last(trades).bidTrade.price > Last(trades).askTrade.price

\* C15: between calls, every price level of bids_ and of asks_ holds at
\* least one order, and every resident order's price is a level of the
\* index of its side: a level is present if and only if an order is
\* resident there.
C15_NoEmptyLevel ==
    (pc \in {"idle", "returned"})
        => /\ \A p \in DOMAIN bids_ : bids_[p] # <<>>
           /\ \A p \in DOMAIN asks_ : asks_[p] # <<>>
           /\ \A i \in DOMAIN orders_ :
                orders_[i].price \in
                    DOMAIN (IF orders_[i].side = "Buy" THEN bids_ ELSE asks_)

\* The number of queue positions of an index.
RECURSIVE Queued(_)
Queued(m) ==
    IF DOMAIN m = {} THEN 0
    ELSE LET p == SetMin(DOMAIN m)
         IN  Len(m[p]) + Queued(MapErase(m, p))

\* C16: in every state, the identifiers of orders_ are the identifiers held
\* in the queues of bids_ and asks_; each is held at exactly one queue
\* position, in the index of the order's side at the level of the order's
\* price, as the order orders_ has for it; and Size() is the number of
\* queue positions of both indexes.
C16_RegistryIndexConsistent ==
    /\ DOMAIN orders_ = {o.orderId : o \in BidOrders \cup AskOrders}
    /\ \A i \in DOMAIN orders_ :
         LET o == orders_[i]
             own == IF o.side = "Buy" THEN bids_ ELSE asks_
             other == IF o.side = "Buy" THEN asks_ ELSE bids_
         IN  /\ o.orderId = i
             /\ o.price \in DOMAIN own
             /\ Cardinality(Positions(own[o.price], i)) = 1
             /\ \A k \in Positions(own[o.price], i) : own[o.price][k] = o
             /\ \A p \in DOMAIN own \ {o.price} : Positions(own[p], i) = {}
             /\ \A p \in DOMAIN other : Positions(other[p], i) = {}
    /\ Size = Queued(bids_) + Queued(asks_)

\* A call returned with three orders resident: two of them share a level,
\* one of the three is partly filled, and both sides hold an order.
C16_Witness ==
    /\ pc = "returned"
    /\ Size = 3
    /\ BidOrders # {}
    /\ AskOrders # {}
    /\ \E i \in DOMAIN orders_ :
         /\ 0 < orders_[i].remainingQuantity
         /\ orders_[i].remainingQuantity < orders_[i].initialQuantity

\* C17: when a call has returned, every order of the registry and of the
\* queues has remaining quantity > 0, whatever quantities were submitted,
\* and every trade of the list it returned has quantity > 0.
C17_NoFilledResident ==
    (pc = "returned")
        => /\ \A i \in DOMAIN orders_ : orders_[i].remainingQuantity > 0
           /\ \A o \in BidOrders \cup AskOrders : o.remainingQuantity > 0
           /\ \A k \in 1..Len(trades) :
                /\ trades[k].bidTrade.quantity > 0
                /\ trades[k].askTrade.quantity > 0

\* The step begins the modify of this identifier: the order orders_ has for
\* it afterwards is a newly submitted one.
Resubmits(i) == pc = "idle" /\ call'.op = "Modify" /\ call'.orderId = i

\* C18: no resident order has a remaining quantity above its initial one;
\* from a step to the next an order's remaining quantity does not grow, and
\* it changes only in a trade of which the order is a leg, by the quantity
\* of that trade; and Fill is never called with more than the order's
\* remaining quantity: no step ends in its logic_error.
C18_RemainingOnlyFilled ==
    [][/\ \A i \in DOMAIN orders_ :
            orders_[i].remainingQuantity <= orders_[i].initialQuantity
       /\ \A i \in DOMAIN orders_ \cap DOMAIN orders_' :
            ~Resubmits(i) =>
              /\ orders_'[i].initialQuantity = orders_[i].initialQuantity
              /\ orders_'[i].remainingQuantity <= orders_[i].remainingQuantity
              /\ orders_'[i].remainingQuantity # orders_[i].remainingQuantity
                   => /\ IsTrade
                      /\ i \in {Last(trades').bidTrade.orderId,
                                Last(trades').askTrade.orderId}
                      /\ orders_'[i].remainingQuantity
                           = orders_[i].remainingQuantity
                               - Last(trades').bidTrade.quantity
       /\ (/\ pc = "inner"
           /\ bidPrice \in DOMAIN bids_
           /\ askPrice \in DOMAIN asks_
           /\ bids_[bidPrice] # <<>>
           /\ asks_[askPrice] # <<>>)
            => LET bid == Front(bids_[bidPrice])
                   ask == Front(asks_[askPrice])
               IN  /\ Fill(bid, MatchQuantity(bid, ask)) >= 0
                   /\ Fill(ask, MatchQuantity(bid, ask)) >= 0
                   /\ IsTrade
      ]_vars

\* One bid was filled by two trades of a positive quantity in one call.
C18_Witness ==
    /\ Len(trades) = 2
    /\ trades[1].bidTrade.orderId = trades[2].bidTrade.orderId
    /\ trades[1].bidTrade.quantity > 0
    /\ trades[2].bidTrade.quantity > 0

\* The FillOrkill orders the step's post-loop check cancels.
FillOrKillKilled ==
    {i \in killed' : orders_[i].orderType = "FillOrkill"}

\* C19, negated: every FillOrkill order the post-loop check of lines
\* 188-201 cancels is the order submitted by the call in progress, and no
\* FillOrkill order is resident when a call begins.
C19_OnlySubmittedKilled ==
    [][/\ pc = "post" => FillOrKillKilled \subseteq {call.orderId}
       /\ pc = "idle" =>
            \A i \in DOMAIN orders_ : orders_[i].orderType # "FillOrkill"
      ]_vars

\* The post-loop check cancelled the FillOrkill buy the call submitted, which
\* a trade had partly filled, while another buy is resident.
C19_Witness ==
    /\ pc = "returned"
    /\ call.op = "AddOrder"
    /\ killed = {call.orderId}
    /\ BidOrders # {}
    /\ \E k \in 1..Len(trades) :
         /\ trades[k].bidTrade.orderId = call.orderId
         /\ trades[k].bidTrade.quantity > 0

\* C20: every queue of which MatchOrders() reads the head holds an order:
\* the two queues a trade of the loop takes its orders from (lines 161-162)
\* are levels of the indexes and non-empty, and when the post-loop check
\* runs, the best bid level (line 190) and the best ask level (line 197)
\* are non-empty.
C20_FrontOfNonEmpty ==
    [][/\ IsTrade
            => /\ bidPrice \in DOMAIN bids_
               /\ askPrice \in DOMAIN asks_
               /\ bids_[bidPrice] # <<>>
               /\ asks_[askPrice] # <<>>
       /\ pc = "post"
            => /\ DOMAIN bids_ # {} => bids_[BidsBegin(bids_)] # <<>>
               /\ DOMAIN asks_ # {} => asks_[AsksBegin(asks_)] # <<>>
      ]_vars
====
